---- MODULE Spec2Model ----
(***************************************************************************)
(* dbnomics-python-client: the pagination loop of                          *)
(* dbnomics.fetch_series_by_url and the page fetcher                       *)
(* dbnomics.internals.fetch_series_json_page.                              *)
(*                                                                         *)
(* One call of fetch_series_by_url is modelled.  Its local variables are   *)
(* the state; one action is the parameter validation and initialisation    *)
(* (lines 200-206), one action is one turn of the `while True` loop        *)
(* (lines 209-245) together with, when the turn breaks out of the loop,    *)
(* the assembly of the DataFrame (lines 247-250).  The HTTP response of    *)
(* each turn is the input, drawn from the set Responses.                   *)
(***************************************************************************)
EXTENDS Integers, Sequences, FiniteSets

(* ------------------------------ bounds --------------------------------- *)
\* series codes of the small catalogue are 1..MaxCode
MaxCode == 3
\* longest data array of a page of the small catalogue
MaxPage == 2
\* page requests of one call that are explored
MaxRequests == 3

(* ------------------------ values of the program ------------------------ *)
\* Python's None (max_nb_series=None, dataset_json.get("name") of a dataset without name)
None == -1
\* the sentinel the code stores in dataset_code / dataset_name before the first page
UnboundLocalError == -2
default_max_nb_series == 50
api_min_version == <<0, 14, 0>>
api_max_version == <<0, 18, 0>>

\* semver comparison of (major, minor, patch)
SemverLess(a, b) ==
    \/ a[1] < b[1]
    \/ a[1] = b[1] /\ a[2] < b[2]
    \/ a[1] = b[1] /\ a[2] = b[2] /\ a[3] < b[3]

\* the gate with the upper bound taken as inclusive
api_version_matches_Inclusive(api_version) ==
    /\ ~SemverLess(api_version, api_min_version)
    /\ ~SemverLess(api_max_version, api_version)

\* semver.match(v, ">=" + api_min_version) and semver.match(v, "<" + api_max_version)
api_version_matches(api_version) ==
    /\ ~SemverLess(api_version, api_min_version)
    /\ SemverLess(api_version, api_max_version)

(* ----------------------------- the server ------------------------------ *)
\* A series record of a page's data array: its code and the length of its
\* period/value arrays (the number of rows pd.DataFrame makes of it).  The
\* series of code c has c mod 3 periods, so records of 0, 1 and 2 rows occur.
NbPeriods(c) == c % 3
Series(c) == [code |-> c, nper |-> NbPeriods(c)]

\* the data array holding the series of codes first, first+1, ..., first+n-1
Run(first, n) == [i \in 1..n |-> Series(first + i - 1)]

NoMeta == <<>>
GoodVersion == <<0, 14, 0>>
DatasetCodes == 1..2
DatasetNames == {None, 1}

\* A response of requests.get as the code reads it:
\*   json: response.json() decodes;  ok: response.ok;
\*   version: response_json['_meta']['python_project_version'], NoMeta without '_meta';
\*   error_description: the key is present;  series: the key 'series' is present;
\*   offset, num_found, data: the fields of response_json['series'];
\*   dataset: the key 'dataset' is present; dataset_code, dataset_name: its
\*   'code' and its 'name' (None without a name).
Page(o, nf, d, dc, dn) ==
    [json |-> TRUE, ok |-> TRUE, version |-> GoodVersion, error_description |-> FALSE,
     series |-> TRUE, offset |-> o, num_found |-> nf, data |-> d,
     dataset |-> TRUE, dataset_code |-> dc, dataset_name |-> dn]

SmallData == {Run(f, n) : f \in 1..MaxCode, n \in 0..MaxPage}
SmallFound == (0..MaxCode) \cup {default_max_nb_series + 1}

\* well-formed pages of the small catalogue, echoing the requested offset:
\* every data array with every num_found under the dataset (1, 1), and every
\* other dataset descriptor on the pages that carry the one next series
SmallPages(o) ==
    {Page(o, nf, d, 1, 1) : nf \in SmallFound, d \in SmallData}
    \cup {Page(o, nf, Run(o + 1, 1), dc, dn) :
              nf \in SmallFound, dc \in DatasetCodes, dn \in DatasetNames}

\* pages of the large catalogue: around default_max_nb_series series
LargeData(o) == {Run(o + 1, n) : n \in {1, default_max_nb_series - 1 - o,
                                        default_max_nb_series - o,
                                        default_max_nb_series + 1 - o}
                                       \cap (0..default_max_nb_series + 1)}
LargeFound == {default_max_nb_series, default_max_nb_series + 1}
LargePages(o) == {Page(o, nf, d, 1, 1) : nf \in LargeFound, d \in LargeData(o)}

\* responses that break the envelope, built on a well-formed page
BasePage(o) == Page(o, MaxCode, Run(o + 1, 1), 1, 1)
Faulty(o) ==
    LET b == BasePage(o) IN
    { [b EXCEPT !.json = FALSE],
      [b EXCEPT !.ok = FALSE, !.error_description = TRUE],
      [b EXCEPT !.ok = FALSE],
      [b EXCEPT !.version = NoMeta],
      [b EXCEPT !.version = <<0, 13, 9>>],
      [b EXCEPT !.version = api_max_version],
      [b EXCEPT !.error_description = TRUE],
      [b EXCEPT !.series = FALSE],
      [b EXCEPT !.offset = o + 1],
      [b EXCEPT !.offset = o + 1, !.ok = FALSE, !.error_description = TRUE],
      [b EXCEPT !.dataset = FALSE] }

Responses(catalogue, o) ==
    IF catalogue = "small" THEN SmallPages(o) \cup Faulty(o) ELSE LargePages(o)

(* ------------------- dbnomics.internals (the fetcher) ------------------ *)
\* the fetcher without its offset assertion
OffsetMatches_Dropped(page_offset, offset) == TRUE

\* assert series_json_page['offset'] == offset
OffsetMatches(page_offset, offset) == page_offset = offset

\* the fetcher with the version gate moved behind the series and offset checks
fetch_series_json_page_VersionLast(r, offset) ==
    IF ~r.json THEN "ValueError: Could not parse JSON payload"
    ELSE IF ~r.ok THEN
        IF r.error_description THEN "ValueError: Could not fetch data"
        ELSE "KeyError: error_description"
    ELSE IF r.error_description THEN "ValueError: Could not find series key"
    ELSE IF ~r.series THEN "ValueError: Could not find series key"
    ELSE IF ~OffsetMatches(r.offset, offset) THEN "AssertionError: offset"
    ELSE IF r.version = NoMeta THEN "KeyError: _meta"
    ELSE IF ~api_version_matches(r.version) THEN "ValueError: Web API version"
    ELSE "ok"

\* fetch_series_json_page: "ok" when response_json is returned, else the
\* exception raised, the checks taken in the order of the code.
fetch_series_json_page(r, offset) ==
    IF ~r.json THEN "ValueError: Could not parse JSON payload"
    ELSE IF ~r.ok THEN
        IF r.error_description THEN "ValueError: Could not fetch data"
        ELSE "KeyError: error_description"
    ELSE IF r.version = NoMeta THEN "KeyError: _meta"
    ELSE IF ~api_version_matches(r.version) THEN "ValueError: Web API version"
    ELSE IF r.error_description THEN "ValueError: Could not find series key"
    ELSE IF ~r.series THEN "ValueError: Could not find series key"
    ELSE IF ~OffsetMatches(r.offset, offset) THEN "AssertionError: offset"
    ELSE "ok"

(* ---------------------- dbnomics.fetch_series_by_url ------------------- *)
VARIABLES
    catalogue,       \* which catalogue the server serves: "small" or "large"
    pc,              \* "start", "loop" (about to request a page), "done", "error";
                     \* "fetch"/"fetched", "flatten", "c_start"/"c_loop", "entry" in the
                     \* specifications of the other functions
    max_nb_series,   \* the argument: None or an integer
    series_list, offset, dataset_code, dataset_name, num_found, nb_series,
    error,           \* the exception the call ended with, "" if none
    error_arg,       \* the num_found a TooManySeries carries, else None
    result,          \* the rows of the returned DataFrame
    requests,        \* history: the offsets of the page requests issued
    pages,           \* history: the responses received, in order
    args             \* the arguments of a fetch_series* function being validated

vars == <<catalogue, pc, max_nb_series, series_list, offset, dataset_code,
          dataset_name, num_found, nb_series, error, error_arg, result,
          requests, pages, args>>

\* no fetch_series* function is validating its arguments
NoArgs == [fn |-> "none"]

\* assert max_nb_series is None or max_nb_series >= 1
ValidMax(m) == m = None \/ m >= 1

\* the loop without its dataset code assertion
DatasetCodeMatches_Dropped(pinned, response_dataset_code) == TRUE

\* assert dataset_code == response_dataset_code
DatasetCodeMatches(pinned, response_dataset_code) == pinned = response_dataset_code

\* assert dataset_name == response_dataset_name
DatasetNameMatches(pinned, response_dataset_name) == pinned = response_dataset_name

\* the guard with its None test inverted
TooManySeriesGuard_Inverted(m, nf) == m # None /\ nf > default_max_nb_series

\* the guard off by one
TooManySeriesGuard_OffByOne(m, nf) == m = None /\ nf > default_max_nb_series + 1

\* if max_nb_series is None and num_found > default_max_nb_series
TooManySeriesGuard(m, nf) == m = None /\ nf > default_max_nb_series

\* if max_nb_series is not None and nb_series >= max_nb_series
CapReached(m, nb) == m # None /\ nb >= m

\* the truncation keeping the last max_nb_series records
Truncate_Tail(sl, m) == IF Len(sl) > m THEN SubSeq(sl, Len(sl) - m + 1, Len(sl)) ELSE sl

\* if nb_series > max_nb_series: series_list = series_list[:max_nb_series]
Truncate(sl, m) == IF Len(sl) > m THEN SubSeq(sl, 1, m) ELSE sl

\* the loop without its count assertion
CountWithinFound_Dropped(nb, nf) == TRUE

\* assert nb_series <= num_found
CountWithinFound(nb, nf) == nb <= nf

\* offset += nb_series
NextOffset(o, nb) == o + nb

\* pd.DataFrame(series): one row per period of the series
SeriesRows(s, dc, dn) ==
    [i \in 1..s.nper |-> [code |-> s.code, period |-> i,
                          dataset_code |-> dc, dataset_name |-> dn]]

\* pd.concat(map(pd.DataFrame, series_list)) with the two dataset columns set
RECURSIVE ConcatRows(_, _, _)
ConcatRows(sl, dc, dn) ==
    IF sl = <<>> THEN <<>>
    ELSE SeriesRows(Head(sl), dc, dn) \o ConcatRows(Tail(sl), dc, dn)

Init ==
    /\ catalogue \in {"small", "large"}
    /\ pc = "start"
    /\ max_nb_series = None
    /\ series_list = <<>>
    /\ offset = 0
    /\ dataset_code = UnboundLocalError
    /\ dataset_name = UnboundLocalError
    /\ num_found = None
    /\ nb_series = None
    /\ error = ""
    /\ error_arg = None
    /\ result = <<>>
    /\ requests = <<>>
    /\ pages = <<>>
    /\ args = NoArgs

\* the arguments tried: None, an invalid 0, and every cap up to MaxCode
MaxArgs == {None} \cup (0..MaxCode)

\* lines 200-206: parameters validation and initial values of the locals
Call ==
    /\ pc = "start"
    /\ \E m \in MaxArgs :
        /\ max_nb_series' = m
        /\ IF ValidMax(m)
           THEN pc' = "loop" /\ error' = error
           ELSE pc' = "error" /\ error' = "AssertionError: max_nb_series"
    /\ series_list' = <<>>
    /\ offset' = 0
    /\ dataset_code' = UnboundLocalError
    /\ dataset_name' = UnboundLocalError
    /\ UNCHANGED <<args, catalogue, num_found, nb_series, error_arg, result, requests, pages>>

\* the values of the locals after a turn of the loop
Locals(p, e, ea, sl, o, dc, dn, nf, nb, res) ==
    /\ pc' = p
    /\ error' = e
    /\ error_arg' = ea
    /\ series_list' = sl
    /\ offset' = o
    /\ dataset_code' = dc
    /\ dataset_name' = dn
    /\ num_found' = nf
    /\ nb_series' = nb
    /\ result' = res

\* lines 247-250, reached by a break with the list sl; pd.concat raises
\* ValueError("No objects to concatenate") when it is given no frame
Return(sl, dc, dn, nf, nb) ==
    IF sl = <<>>
    THEN Locals("error", "ValueError: No objects to concatenate", None,
                sl, offset, dc, dn, nf, nb, <<>>)
    ELSE Locals("done", "", None, sl, offset, dc, dn, nf, nb, ConcatRows(sl, dc, dn))

\* lines 211-245 on the page r returned by fetch_series_json_page
Accumulate(r) ==
    LET dc == IF dataset_code = UnboundLocalError THEN r.dataset_code ELSE dataset_code
        dn == IF dataset_name = UnboundLocalError THEN r.dataset_name ELSE dataset_name
        nf == r.num_found
        sl == series_list \o r.data
        nb == Len(sl)
    IN
    IF ~r.dataset THEN
        Locals("error", "KeyError: dataset", None, series_list, offset,
               dataset_code, dataset_name, num_found, nb_series, <<>>)
    ELSE IF dataset_code # UnboundLocalError
            /\ ~DatasetCodeMatches(dataset_code, r.dataset_code) THEN
        Locals("error", "AssertionError: dataset_code", None, series_list, offset,
               dataset_code, dataset_name, num_found, nb_series, <<>>)
    ELSE IF dataset_name # UnboundLocalError
            /\ ~DatasetNameMatches(dataset_name, r.dataset_name) THEN
        Locals("error", "AssertionError: dataset_name", None, series_list, offset,
               dc, dataset_name, num_found, nb_series, <<>>)
    ELSE IF TooManySeriesGuard(max_nb_series, nf) THEN
        Locals("error", "TooManySeries", nf, series_list, offset,
               dc, dn, nf, nb_series, <<>>)
    ELSE IF CapReached(max_nb_series, nb) THEN
        Return(Truncate(sl, max_nb_series), dc, dn, nf, nb)
    ELSE IF ~CountWithinFound(nb, nf) THEN
        Locals("error", "AssertionError: nb_series", None, sl, offset,
               dc, dn, nf, nb, <<>>)
    ELSE IF nb = nf THEN
        Return(sl, dc, dn, nf, nb)
    ELSE
        Locals("loop", "", None, sl, NextOffset(offset, nb), dc, dn, nf, nb, <<>>)

\* the loop catching the exception of a failed fetch and asking the page again
LoopTurn_Retry ==
    /\ pc = "loop"
    /\ Len(requests) < MaxRequests
    /\ \E r \in Responses(catalogue, offset) :
        /\ requests' = Append(requests, offset)
        /\ pages' = Append(pages, r)
        /\ LET f == fetch_series_json_page(r, offset) IN
           IF f = "ok" THEN Accumulate(r)
           ELSE Locals("loop", "", None, series_list, offset, dataset_code,
                       dataset_name, num_found, nb_series, <<>>)
    /\ UNCHANGED <<args, catalogue, max_nb_series>>

\* one turn of `while True`: lines 209-245, and 247-250 after a break
LoopTurn ==
    /\ pc = "loop"
    /\ Len(requests) < MaxRequests
    /\ \E r \in Responses(catalogue, offset) :
        /\ requests' = Append(requests, offset)
        /\ pages' = Append(pages, r)
        /\ LET f == fetch_series_json_page(r, offset) IN
           IF f = "ok" THEN Accumulate(r)
           ELSE Locals("error", f, None, series_list, offset, dataset_code,
                       dataset_name, num_found, nb_series, <<>>)
    /\ UNCHANGED <<args, catalogue, max_nb_series>>

Next == Call \/ LoopTurn

Spec == Init /\ [][Next]_vars

(* ------------------------- reading the history ------------------------- *)
\* response i came back from fetch_series_json_page and carries a dataset
\* object: the turn read its num_found (line 226)
PageRead(i) ==
    /\ fetch_series_json_page(pages[i], requests[i]) = "ok"
    /\ pages[i].dataset

\* the data arrays of the pages ps, one after the other
RECURSIVE AllData(_)
AllData(ps) == IF ps = <<>> THEN <<>> ELSE Head(ps).data \o AllData(Tail(ps))

Codes(sl) == {sl[i].code : i \in 1..Len(sl)}

\* page r is what a server holding the series 1..N sends for the offset o:
\* the offset echoed, num_found = N, the next series from position o on (at
\* least one while o < N, none from N on)
SlicePage(r, o, N) ==
    /\ fetch_series_json_page(r, r.offset) = "ok"
    /\ r.offset = o
    /\ r.dataset
    /\ r.num_found = N
    /\ r.data = Run(o + 1, Len(r.data))
    /\ IF o < N THEN Len(r.data) >= 1 /\ o + Len(r.data) <= N ELSE r.data = <<>>

\* every response so far came from such a server, under one dataset
SliceServer ==
    /\ pages # <<>>
    /\ \A i \in 1..Len(pages) :
        /\ SlicePage(pages[i], requests[i], pages[1].num_found)
        /\ pages[i].dataset_code = pages[1].dataset_code
        /\ pages[i].dataset_name = pages[1].dataset_name

(* ------------------------------- claims -------------------------------- *)

\* C1: pagination completeness.  Against a server that echoes the offset,
\* keeps num_found = N >= 1 and sends the next series from the requested
\* position on (at least one per page while the offset is below N), a call
\* with max_nb_series >= N (or None and N <= 50) does not fail, has left the
\* loop once N requests are made (each page brings a new series, so N pages
\* suffice), and leaves it with nb_series = N and each of the N series once.
C1_PaginationComplete ==
    LET N == pages[1].num_found IN
    ( /\ SliceServer
      /\ N >= 1
      /\ \/ max_nb_series = None /\ N <= default_max_nb_series
         \/ max_nb_series # None /\ max_nb_series >= N )
    => /\ pc # "error"
       /\ pc = "done" => nb_series = N /\ series_list = Run(1, N)
       /\ Len(requests) >= N => pc = "done"

\* C2: every page request carries as offset the number of series accumulated
\* from the pages before it: 0 for the first, the current nb_series after.
C2_OffsetIsCount ==
    \A i \in 1..Len(requests) :
        requests[i] = Len(AllData(SubSeq(pages, 1, i - 1)))

\* C3: with an explicit max_nb_series = k below num_found the loop goes on
\* only while nb_series < k, and the list handed to assembly holds exactly k
\* distinct codes: the first k series in arrival order, none beyond.
C3_CapTruncation ==
    ( /\ max_nb_series # None
      /\ pages # <<>>
      /\ \A i \in 1..Len(pages) : max_nb_series < pages[i].num_found )
    => /\ pc = "loop" => nb_series < max_nb_series
       /\ pc = "done" =>
            /\ series_list = SubSeq(AllData(pages), 1, max_nb_series)
            /\ Cardinality(Codes(series_list)) = max_nb_series

\* C4: with max_nb_series None, a first page (a response returned by
\* fetch_series_json_page, with its dataset object) reporting num_found above
\* default_max_nb_series makes the call fail with TooManySeries carrying that
\* num_found, after one page request, nothing accumulated, nothing returned.
C4_DefaultCapGuard ==
    ( /\ max_nb_series = None
      /\ pages # <<>>
      /\ PageRead(1)
      /\ pages[1].num_found > default_max_nb_series )
    => /\ pc = "error"
       /\ error = "TooManySeries"
       /\ error_arg = pages[1].num_found
       /\ Len(requests) = 1
       /\ series_list = <<>>
       /\ result = <<>>

C4_Witness ==
    /\ max_nb_series = None
    /\ Len(pages) = 1
    /\ PageRead(1)
    /\ pages[1].num_found = default_max_nb_series + 1
    /\ pages[1].data # <<>>
    /\ error = "TooManySeries"

\* C5: with max_nb_series None a call that returns has at most
\* default_max_nb_series series, and a call that received more than that
\* many series has ended in an error.
C5_NoneIsNotUnlimited ==
    max_nb_series = None
    => /\ pc = "done" => Len(series_list) <= default_max_nb_series
       /\ Len(AllData(pages)) > default_max_nb_series => pc = "error"

C5_Witness ==
    /\ max_nb_series = None
    /\ pc = "done"
    /\ Len(pages) = 2
    /\ Len(series_list) = default_max_nb_series

\* C6: nb_series is the number of distinct series codes received, a code
\* sent on two pages counting once, and the check nb_series <= num_found
\* fails only when the distinct codes outnumber num_found.
C6_DistinctCount ==
    /\ (pc \in {"loop", "done"} /\ pages # <<>>)
       => nb_series = Cardinality(Codes(AllData(pages)))
    /\ error = "AssertionError: nb_series"
       => Cardinality(Codes(AllData(pages))) > num_found

\* C7: a first page with num_found = 0 and empty data ends the call after
\* that one request with an empty table and no error, whatever max_nb_series.
C7_EmptyResult ==
    ( /\ pages # <<>>
      /\ PageRead(1)
      /\ pages[1].num_found = 0
      /\ pages[1].data = <<>> )
    => /\ pc = "done"
       /\ error = ""
       /\ result = <<>>
       /\ Len(requests) = 1

\* C8: a response whose results offset differs from the requested offset
\* makes fetch_series_json_page fail and the call with it: no rows are
\* returned and no request follows.
C8_OffsetMismatchFatal ==
    \A i \in 1..Len(pages) :
        (pages[i].json /\ pages[i].series /\ pages[i].offset # requests[i])
        => /\ fetch_series_json_page(pages[i], requests[i]) # "ok"
           /\ pc = "error"
           /\ result = <<>>
           /\ i = Len(requests)

C8_Witness ==
    /\ Len(pages) = 2
    /\ pages[2].ok
    /\ pages[2].offset # requests[2]
    /\ series_list # <<>>
    /\ pc = "error"
    /\ error = "AssertionError: offset"

\* C9: a later page reporting another num_found than the first page makes
\* the call fail, so the loop ends by exhaustion on the first page's num_found.
C9_NumFoundPinned ==
    /\ \A i \in 2..Len(pages) :
        (PageRead(i) /\ pages[i].num_found # pages[1].num_found) => pc = "error"
    /\ (pc = "done" /\ ~CapReached(max_nb_series, nb_series))
        => nb_series = pages[1].num_found

CountAfter(i) == Len(AllData(SubSeq(pages, 1, i)))

\* C11 (as claimed): for every max_nb_series, a page that makes the
\* accumulated count larger than its num_found makes the call fail, and no
\* call returns with a count above num_found.
C11_CountNeverExceedsFound ==
    /\ \A i \in 1..Len(pages) :
        (PageRead(i) /\ CountAfter(i) > pages[i].num_found) => pc = "error"
    /\ pc = "done" => nb_series <= num_found

\* C11 (amended): a page that makes the accumulated count larger than its
\* num_found makes the call fail unless that count reaches an explicit
\* max_nb_series (the cap test of line 234 comes before the assertion of
\* line 241); a call that returns has a count within num_found or at the cap.
C11_CountWithinFoundUnlessCapped ==
    /\ \A i \in 1..Len(pages) :
        ( /\ PageRead(i)
          /\ CountAfter(i) > pages[i].num_found
          /\ ~(max_nb_series # None /\ CountAfter(i) >= max_nb_series) )
        => pc = "error"
    /\ pc = "done"
        => \/ nb_series <= num_found
           \/ max_nb_series # None /\ nb_series >= max_nb_series

C11_Witness ==
    /\ max_nb_series # None
    /\ pages # <<>>
    /\ PageRead(Len(pages))
    /\ CountAfter(Len(pages)) > pages[Len(pages)].num_found
    /\ CountAfter(Len(pages)) < max_nb_series
    /\ pc = "error"
    /\ error = "AssertionError: nb_series"

\* page i passes every check of the turn that receives it: the fetch, the
\* dataset key, the pinned descriptor, the default cap, the count assertion
\* (not evaluated once an explicit max_nb_series is reached)
NoFault(i) ==
    /\ PageRead(i)
    /\ pages[i].dataset_code = pages[1].dataset_code
    /\ pages[i].dataset_name = pages[1].dataset_name
    /\ ~(max_nb_series = None /\ pages[i].num_found > default_max_nb_series)
    /\ \/ CountAfter(i) <= pages[i].num_found
       \/ max_nb_series # None /\ CountAfter(i) >= max_nb_series

\* C13: a failed fetch or a failed consistency check ends the call with
\* that error: nothing is returned, no action of the call is left to take,
\* and the failing page is the last one requested (its offset is not asked
\* again); a failed fetch ends the call with the fetcher's own exception.
C13_AbortOnError ==
    /\ pc = "error" => (error # "" /\ result = <<>> /\ ~ENABLED Next)
    /\ \A i \in 1..Len(pages) :
        ~NoFault(i) =>
            /\ pc = "error"
            /\ result = <<>>
            /\ i = Len(requests)
            /\ fetch_series_json_page(pages[i], requests[i]) # "ok"
                => error = fetch_series_json_page(pages[i], requests[i])

C13_Witness ==
    /\ pc = "error"
    /\ Len(pages) = 2
    /\ ~pages[2].json
    /\ series_list # <<>>
    /\ error = "ValueError: Could not parse JSON payload"

(* --------------- fetch_series_json_page on its own --------------------- *)
\* One call of fetch_series_json_page(series_json_url, offset): the response
\* is drawn from every combination of the parts the function reads.
FetchVersions ==
    { <<0, 2, 0>>, <<0, 13, 9>>, <<0, 14, 0>>, <<0, 14, 1>>, <<0, 17, 9>>,
      <<0, 18, 0>>, <<0, 18, 1>>, <<1, 0, 0>>, <<1, 15, 0>> }

AllResponses(o) ==
    { [BasePage(o) EXCEPT !.json = j, !.ok = k, !.version = v,
                          !.error_description = e, !.series = x, !.offset = po] :
        j \in BOOLEAN, k \in BOOLEAN, v \in FetchVersions \cup {NoMeta},
        e \in BOOLEAN, x \in BOOLEAN, po \in {o, o + 1} }

InitFetch ==
    /\ catalogue = "small"
    /\ pc = "fetch"
    /\ max_nb_series = None
    /\ series_list = <<>>
    /\ offset \in 0..MaxCode
    /\ dataset_code = UnboundLocalError
    /\ dataset_name = UnboundLocalError
    /\ num_found = None
    /\ nb_series = None
    /\ error = ""
    /\ error_arg = None
    /\ result = <<>>
    /\ requests = <<>>
    /\ pages = <<>>
    /\ args = NoArgs

\* lines 36-71 of internals.py: the request, the checks, the return
FetchPage ==
    /\ pc = "fetch"
    /\ \E r \in AllResponses(offset) :
        /\ requests' = Append(requests, offset)
        /\ pages' = Append(pages, r)
        /\ LET f == fetch_series_json_page(r, offset) IN
           IF f = "ok" THEN pc' = "fetched" /\ error' = ""
           ELSE pc' = "error" /\ error' = f
    /\ UNCHANGED <<args, catalogue, max_nb_series, series_list, offset, dataset_code,
                   dataset_name, num_found, nb_series, error_arg, result>>

NextFetch == FetchPage

SpecFetch == InitFetch /\ [][NextFetch]_vars

\* what a response violates, and the check an exception belongs to
BadJson(r) == ~r.json
BadStatus(r) == ~r.ok
NoSeriesKey(r) == ~r.series \/ r.error_description
BadOffset(r, o) == r.offset # o
BadVersion(r) ==
    \/ r.version = NoMeta
    \/ r.version[1] * 10000 + r.version[2] * 100 + r.version[3] < 1400
    \/ r.version[1] * 10000 + r.version[2] * 100 + r.version[3] >= 1800

CheckOf(e) ==
    CASE e = "ValueError: Could not parse JSON payload" -> "json"
      [] e \in {"ValueError: Could not fetch data", "KeyError: error_description"} -> "status"
      [] e \in {"KeyError: _meta", "ValueError: Web API version"} -> "version"
      [] e = "ValueError: Could not find series key" -> "series"
      [] e = "AssertionError: offset" -> "offset"
      [] OTHER -> "none"

\* C12 (as claimed): the checks are taken in the order JSON, status, series
\* key, offset, version; the exception raised is that of the first one
\* violated, so a missing series key or a wrong offset comes before a
\* version fault.
C12_ValidationOrder ==
    pc \in {"fetched", "error"} =>
        LET r == pages[1]
            o == requests[1]
            c == CheckOf(error)
        IN /\ BadJson(r) => c = "json"
           /\ (~BadJson(r) /\ BadStatus(r)) => c = "status"
           /\ (~BadJson(r) /\ ~BadStatus(r) /\ NoSeriesKey(r)) => c = "series"
           /\ (~BadJson(r) /\ ~BadStatus(r) /\ ~NoSeriesKey(r) /\ BadOffset(r, o))
                => c = "offset"
           /\ ( /\ ~BadJson(r) /\ ~BadStatus(r) /\ ~NoSeriesKey(r)
                /\ ~BadOffset(r, o) /\ BadVersion(r) ) => c = "version"

\* C12 (amended): the checks are taken in the order JSON, status, version,
\* series key, offset; the exception raised is that of the first one
\* violated, so a version fault comes before a missing series key or a
\* wrong offset, and a response that violates none is returned.
C12_ValidationOrderOfCode ==
    pc \in {"fetched", "error"} =>
        LET r == pages[1]
            o == requests[1]
            c == CheckOf(error)
        IN /\ BadJson(r) => c = "json"
           /\ (~BadJson(r) /\ BadStatus(r)) => c = "status"
           /\ (~BadJson(r) /\ ~BadStatus(r) /\ BadVersion(r)) => c = "version"
           /\ (~BadJson(r) /\ ~BadStatus(r) /\ ~BadVersion(r) /\ NoSeriesKey(r))
                => c = "series"
           /\ ( /\ ~BadJson(r) /\ ~BadStatus(r) /\ ~BadVersion(r)
                /\ ~NoSeriesKey(r) /\ BadOffset(r, o) ) => c = "offset"
           /\ ( /\ ~BadJson(r) /\ ~BadStatus(r) /\ ~BadVersion(r)
                /\ ~NoSeriesKey(r) /\ ~BadOffset(r, o) ) => pc = "fetched"

C12_Witness ==
    /\ pc = "error"
    /\ pages[1].json /\ pages[1].ok
    /\ BadVersion(pages[1]) /\ pages[1].version # NoMeta
    /\ ~pages[1].series
    /\ BadOffset(pages[1], requests[1])
    /\ error = "ValueError: Web API version"

(* ------------- dbnomics_client.iter_column_json_dicts ------------------ *)
\* longest period / value / flag array of a series record
MaxLen == 2
\* numbers of series records in the sequence handed to iter_column_json_dicts
SeqLens == {0, 1, 2}
\* a dataset name that is the empty string
EmptyName == 0

\* The series record at position j of the input: scalar fields code and
\* FREQ, the arrays period (n entries) and value (m entries) and, when
\* fl # None, a further per-period array flag (fl entries).
FlatRecord(j, n, m, fl) ==
    LET base == [code |-> j, FREQ |-> 100 + j,
                 period |-> [i \in 1..n |-> 2000 + 10 * j + i],
                 value |-> [i \in 1..m |-> 10 * j + i]]
    IN IF fl = None THEN base
       ELSE [k \in DOMAIN base \cup {"flag"} |->
                IF k = "flag" THEN [i \in 1..fl |-> 500 + 10 * j + i] ELSE base[k]]

Shapes == (0..MaxLen) \X (0..MaxLen) \X ({None} \cup (0..MaxLen))

\* keys_with_list = [k for k, v in d.items() if isinstance(v, list)]
keys_with_list(d) == DOMAIN d \cap {"period", "value", "flag"}

\* the number of tuples zip(*(d[k] for k in keys_with_list)) yields
ZipLen(d) ==
    CHOOSE n \in {Len(d[k]) : k \in keys_with_list(d)} :
        \A k \in keys_with_list(d) : n <= Len(d[k])

\* the dict built without d.copy(): only the dataset and array fields
column_json_NoCopy(d, i, dc, dn) ==
    [k \in keys_with_list(d) \cup {"dataset_code"}
           \cup (IF dn # None /\ dn # EmptyName THEN {"dataset_name"} ELSE {}) |->
        IF k \in keys_with_list(d) THEN d[k][i]
        ELSE IF k = "dataset_code" THEN dc
        ELSE dn]

\* lines 159-165: the dict yielded for the i-th tuple of the zip
column_json(d, i, dc, dn) ==
    [k \in DOMAIN d \cup {"dataset_code"}
           \cup (IF dn # None /\ dn # EmptyName THEN {"dataset_name"} ELSE {}) |->
        IF k \in keys_with_list(d) THEN d[k][i]
        ELSE IF k = "dataset_code" THEN dc
        ELSE IF k = "dataset_name" THEN dn
        ELSE d[k]]

\* lines 150-152: the assertions of iter_expanded_dicts, "" when they pass
ExpandError(d) ==
    IF "period" \notin DOMAIN d THEN "AssertionError: period"
    ELSE IF "value" \notin DOMAIN d THEN "AssertionError: value"
    ELSE IF Len(d.period) # Len(d.value) THEN "AssertionError: len"
    ELSE ""

\* iter_expanded_dicts(d): the dicts it yields
iter_expanded_dicts(d, dc, dn) == [i \in 1..ZipLen(d) |-> column_json(d, i, dc, dn)]

\* itertools.chain.from_iterable(map(iter_expanded_dicts, seq)), consumed to
\* the end: the dicts yielded and the exception that stopped it, "" if none
RECURSIVE iter_column_json_dicts(_, _, _)
iter_column_json_dicts(seq, dc, dn) ==
    IF seq = <<>> THEN [rows |-> <<>>, error |-> ""]
    ELSE IF ExpandError(Head(seq)) # "" THEN [rows |-> <<>>, error |-> ExpandError(Head(seq))]
    ELSE LET rest == iter_column_json_dicts(Tail(seq), dc, dn)
         IN [rows |-> iter_expanded_dicts(Head(seq), dc, dn) \o rest.rows,
             error |-> rest.error]

InitFlatten ==
    /\ catalogue = "small"
    /\ pc = "flatten"
    /\ max_nb_series = None
    /\ \E len \in SeqLens : \E sh \in [1..len -> Shapes] :
        series_list = [j \in 1..len |-> FlatRecord(j, sh[j][1], sh[j][2], sh[j][3])]
    /\ offset = 0
    /\ dataset_code \in DatasetCodes
    /\ dataset_name \in DatasetNames \cup {EmptyName}
    /\ num_found = None
    /\ nb_series = None
    /\ error = ""
    /\ error_arg = None
    /\ result = <<>>
    /\ requests = <<>>
    /\ pages = <<>>
    /\ args = NoArgs

\* list(iter_column_json_dicts(series_list, dataset_code, dataset_name))
Flatten ==
    /\ pc = "flatten"
    /\ LET out == iter_column_json_dicts(series_list, dataset_code, dataset_name) IN
        /\ result' = out.rows
        /\ error' = out.error
        /\ pc' = IF out.error = "" THEN "done" ELSE "error"
    /\ UNCHANGED <<args, catalogue, max_nb_series, series_list, offset, dataset_code,
                   dataset_name, num_found, nb_series, error_arg, requests, pages>>

NextFlatten == Flatten

SpecFlatten == InitFlatten /\ [][NextFlatten]_vars

\* the arrays of record d all have the length of its period array
ParallelArrays(d) == \A k \in keys_with_list(d) : Len(d[k]) = Len(d.period)

\* the number of period entries of the first j records of sl
RECURSIVE PeriodsBefore(_, _)
PeriodsBefore(sl, j) == IF j = 0 THEN 0 ELSE PeriodsBefore(sl, j - 1) + Len(sl[j].period)

\* C14: flattening series records (each with all its arrays as long as its
\* period array) does not fail; a record of n periods gives exactly n rows,
\* after the rows of the records before it and in period order; row i keeps
\* the scalar fields, takes the i-th element of every array and the dataset
\* code; the row count is the sum of the period-array lengths.
C14_Flattening ==
    (pc # "flatten" /\ \A j \in 1..Len(series_list) : ParallelArrays(series_list[j]))
    => /\ pc = "done"
       /\ Len(result) = PeriodsBefore(series_list, Len(series_list))
       /\ \A j \in 1..Len(series_list) : \A i \in 1..Len(series_list[j].period) :
            LET d == series_list[j]
                row == result[PeriodsBefore(series_list, j - 1) + i]
            IN /\ DOMAIN d \subseteq DOMAIN row
               /\ row.code = d.code
               /\ row.FREQ = d.FREQ
               /\ row.period = d.period[i]
               /\ row.value = d.value[i]
               /\ "flag" \in DOMAIN d => row.flag = d.flag[i]
               /\ row.dataset_code = dataset_code

C14_Witness ==
    /\ pc = "done"
    /\ Len(series_list) = 2
    /\ \A j \in 1..2 : ParallelArrays(series_list[j])
    /\ "flag" \in DOMAIN series_list[1]
    /\ Len(series_list[1].period) = 2
    /\ Len(series_list[2].period) = 1
    /\ Len(result) = 3

\* C15: a record with two arrays of different lengths (period and value, or
\* any further per-period array) stops the flattening with an error, no row
\* being emitted for that record: the rows are those of the records before it.
C15_MalformedRejected ==
    \A j \in 1..Len(series_list) :
        ( /\ pc # "flatten"
          /\ ~ParallelArrays(series_list[j])
          /\ \A h \in 1..(j - 1) : ParallelArrays(series_list[h]) )
        => /\ pc = "error"
           /\ Len(result) = PeriodsBefore(series_list, j - 1)

(* ------------------- the dataset columns of the table ------------------ *)
\* C16: when the dataset of the pages has no name, no row of the table
\* returned by fetch_series_by_url has a dataset_name field, and every row
\* has a dataset_code field.
C16_NameOmittedWhenAbsent ==
    (pc = "done" /\ dataset_name = None)
    => \A k \in 1..Len(result) :
        /\ "dataset_name" \notin DOMAIN result[k]
        /\ "dataset_code" \in DOMAIN result[k]

\* the dataset the catalogue holds the series of code c in
DatasetOf(c) == 1 + (c % 2)

\* C17: when the series fetched in one call belong to two datasets, every
\* row of the result carries the dataset code of its own series.
C17_OwnDatasetCode ==
    ( /\ pc = "done"
      /\ \E k, l \in 1..Len(result) : DatasetOf(result[k].code) # DatasetOf(result[l].code) )
    => \A k \in 1..Len(result) : result[k].dataset_code = DatasetOf(result[k].code)

(* --------------------- error statuses and the envelope ----------------- *)
\* C18: a response with an error status whose body decodes as JSON makes
\* fetch_series_json_page fail with the ValueError "Could not fetch data",
\* with or without the server's message field in the body.
C18_ErrorStatusIsRequestFailure ==
    \A i \in 1..Len(pages) :
        (pages[i].json /\ ~pages[i].ok)
        => /\ pc = "error"
           /\ error = "ValueError: Could not fetch data"

\* a success response with a series object of the right offset and a
\* compatible version (if any) that lacks the _meta or the dataset object
OptionalPartAbsent(r, o) ==
    /\ r.json /\ r.ok /\ r.series /\ ~r.error_description /\ r.offset = o
    /\ r.version = NoMeta \/ ~r.dataset
    /\ r.version # NoMeta => api_version_matches(r.version)

\* C19: a page without a dataset object and/or without a _meta object is
\* accepted: neither fetch_series_json_page nor fetch_series_by_url fails
\* on the absent part.
C19_OptionalPartsAccepted ==
    \A i \in 1..Len(pages) :
        OptionalPartAbsent(pages[i], requests[i])
        => ~( /\ pc = "error"
              /\ i = Len(pages)
              /\ error \in {"KeyError: _meta", "KeyError: dataset"} )

(* ---------------------------- the version gate ------------------------- *)
\* (major, minor, patch) as one number, for parts below 100
VersionNumber(v) == v[1] * 10000 + v[2] * 100 + v[3]

\* C20: a response that decodes, has a success status and carries a server
\* version v passes the version gate exactly when
\* api_min_version <= v < api_max_version; v = api_min_version passes,
\* v = api_max_version does not, and every version that does not pass makes
\* the fetch fail with the ValueError "Web API version".
C20_VersionGateHalfOpen ==
    \A i \in 1..Len(pages) :
        LET r == pages[i]
            inRange == /\ VersionNumber(api_min_version) <= VersionNumber(r.version)
                       /\ VersionNumber(r.version) < VersionNumber(api_max_version)
        IN (r.json /\ r.ok /\ r.version # NoMeta)
           => /\ (pc = "error" /\ error = "ValueError: Web API version") <=> ~inRange
              /\ pc = "fetched" => inRange
              /\ r.version = api_min_version => error # "ValueError: Web API version"
              /\ r.version = api_max_version => error = "ValueError: Web API version"

C20_Witness ==
    /\ pc = "error"
    /\ pages # <<>>
    /\ pages[1].json /\ pages[1].ok
    /\ pages[1].version = api_max_version
    /\ error = "ValueError: Web API version"

(* ---------------------- dbnomics_client.fetch_from_url ------------------ *)
client_api_min_version == <<0, 10, 0>>
client_api_max_version == <<0, 11, 0>>
default_limit == 3000

client_api_version_matches(api_version) ==
    /\ ~SemverLess(api_version, client_api_min_version)
    /\ SemverLess(api_version, client_api_max_version)

\* the series record of the catalogue as the JSON object the API sends:
\* period and value arrays of s.nper entries
ClientSeries(s) == FlatRecord(s.code, s.nper, s.nper, None)

\* A response to dbnomics_client.fetch_series_json_page: status is the HTTP
\* status code, message tells whether the body has a "message" field.
ClientPage(o, nf, d) ==
    [json |-> TRUE, status |-> 200, message |-> FALSE, version |-> client_api_min_version,
     series |-> TRUE, offset |-> o, num_found |-> nf,
     data |-> [k \in 1..Len(d) |-> ClientSeries(d[k])],
     dataset |-> TRUE, dataset_code |-> 1, dataset_name |-> 1]

\* data arrays the server answers a request at offset o with: runs of
\* consecutive series from the first series or from the series after o
ClientData(o) == {Run(f, n) : f \in {1, o + 1} \cap (1..MaxCode), n \in 0..MaxPage}

\* the totals the server reports: all the series of the catalogue, or one less
ClientFound == {MaxCode - 1, MaxCode}

ClientPages(o) == {ClientPage(o, nf, d) : nf \in ClientFound, d \in ClientData(o)}

ClientFaulty(o) ==
    LET b == ClientPage(o, MaxCode, Run(1, 1)) IN
    { [b EXCEPT !.json = FALSE],
      [b EXCEPT !.status = 404, !.message = TRUE],
      [b EXCEPT !.status = 404],
      [b EXCEPT !.status = 500],
      [b EXCEPT !.status = 500, !.series = FALSE],
      [b EXCEPT !.version = NoMeta],
      [b EXCEPT !.version = client_api_max_version],
      [b EXCEPT !.series = FALSE],
      [b EXCEPT !.offset = o + 1],
      [b EXCEPT !.dataset = FALSE],
      [b EXCEPT !.dataset_name = None] }

\* lines 101-126: "ok" when the page is returned, else the exception
client_fetch_series_json_page(r, o) ==
    IF ~r.json THEN "ValueError: Could not parse JSON payload"
    ELSE IF r.status = 404 THEN
        (IF r.message THEN "ValueError: Could not fetch data" ELSE "KeyError: message")
    ELSE IF r.version = NoMeta THEN "KeyError: _meta"
    ELSE IF ~client_api_version_matches(r.version) THEN "ValueError: Web API version"
    ELSE IF ~r.series THEN "ValueError: Could not find series key"
    ELSE IF r.offset # o THEN "AssertionError: offset"
    ELSE IF ~r.dataset THEN "KeyError: dataset"
    ELSE "ok"

\* len(set(map(lambda e: e['code'], series_json_list)))
get_nb_series(series_json_list) ==
    Cardinality({series_json_list[k].code : k \in 1..Len(series_json_list)})

\* the stop test of line 96
ClientStop(limit, nb, nf) == (limit # None /\ nb >= limit) \/ nb = nf

InitClient ==
    /\ catalogue = "small"
    /\ pc = "c_start"
    /\ max_nb_series = None
    /\ series_list = <<>>
    /\ offset = 0
    /\ dataset_code = UnboundLocalError
    /\ dataset_name = UnboundLocalError
    /\ num_found = None
    /\ nb_series = None
    /\ error = ""
    /\ error_arg = None
    /\ result = <<>>
    /\ requests = <<>>
    /\ pages = <<>>
    /\ args = NoArgs

Limits == {None, default_limit} \cup (0..MaxCode)

\* fetch_from_url(url, is_api_url=True, limit=...): max_nb_series holds limit
ClientCall ==
    /\ pc = "c_start"
    /\ max_nb_series' \in Limits
    /\ pc' = "c_loop"
    /\ UNCHANGED <<args, catalogue, series_list, offset, dataset_code, dataset_name,
                   num_found, nb_series, error, error_arg, result, requests, pages>>

\* one turn of the while loop of lines 89-97 and, when it breaks, line 98;
\* series_list holds series_json_list
ClientTurn ==
    /\ pc = "c_loop"
    /\ Len(requests) < MaxRequests
    /\ LET o == get_nb_series(series_list) IN
       \E r \in ClientPages(o) \cup ClientFaulty(o) :
        /\ requests' = Append(requests, o)
        /\ pages' = Append(pages, r)
        /\ offset' = o
        /\ LET f == client_fetch_series_json_page(r, o) IN
           IF f # "ok"
           THEN /\ pc' = "error"
                /\ error' = f
                /\ UNCHANGED <<series_list, dataset_code, dataset_name, num_found,
                               nb_series, result>>
           ELSE LET out == iter_column_json_dicts(r.data, r.dataset_code, r.dataset_name)
                    rows == series_list \o out.rows
                    nb == get_nb_series(rows)
                IN /\ dataset_code' = r.dataset_code
                   /\ dataset_name' = r.dataset_name
                   /\ IF out.error # ""
                      THEN /\ pc' = "error"
                           /\ error' = out.error
                           /\ UNCHANGED <<series_list, num_found, nb_series, result>>
                      ELSE /\ series_list' = rows
                           /\ nb_series' = nb
                           /\ num_found' = r.num_found
                           /\ error' = ""
                           /\ IF ClientStop(max_nb_series, nb, r.num_found)
                              THEN pc' = "done" /\ result' = rows
                              ELSE pc' = "c_loop" /\ UNCHANGED result
    /\ UNCHANGED <<args, catalogue, max_nb_series, error_arg>>

NextClient == ClientCall \/ ClientTurn

SpecClient == InitClient /\ [][NextClient]_vars

\* C21: for an explicit limit k >= 1 the table returned by fetch_from_url
\* has rows of at most k distinct series codes.
C21_LimitCapsResult ==
    (pc = "done" /\ max_nb_series # None /\ max_nb_series >= 1)
    => Cardinality(Codes(result)) <= max_nb_series

\* C23: the count get_nb_series gives after each page, and the offset of
\* each request, is the number of distinct series codes among all the series
\* records received so far, a series with empty arrays included.
C23_DistinctSeriesCount ==
    pc \in {"c_loop", "done"} =>
        /\ pages # <<>> => nb_series = Cardinality(Codes(AllData(pages)))
        /\ \A i \in 1..Len(requests) :
            requests[i] = Cardinality(Codes(AllData(SubSeq(pages, 1, i - 1))))

(* ------------------ the fetch_series* functions' arguments -------------- *)
Functions ==
    {"fetch_series", "fetch_series_by_ids", "fetch_series_by_dimensions",
     "fetch_series_by_sdmx_filter", "fetch_series_by_url"}

\* what an element of series_ids can be: a string, a tuple of 2 or of 3
\* elements, a list of 3 elements
SeriesIdKinds == {"str", "tuple2", "tuple3", "list3"}
\* numbers of elements of the series_ids lists explored
SeriesIdsLens == 0..2

\* series_ids: something that is not a list, or a list of such elements
SeriesIdsArgs ==
    {[is_list |-> FALSE, items |-> <<>>]}
    \cup {[is_list |-> TRUE, items |-> s] :
            s \in UNION {[1..n -> SeriesIdKinds] : n \in SeriesIdsLens}}

\* the keys of dimensions: a non-empty string, the empty string, an integer
DimKeys == {"k", "", "int"}
\* the values of dimensions: ["v"], [], "v", [""], [1]
DimValues == {"list_of_str", "empty_list", "str", "list_with_empty_str", "list_with_int"}

\* dimensions: something that is not a dict, or a dict of such keys and values
DimensionsArgs ==
    {[is_dict |-> FALSE, items |-> <<>>]}
    \cup {[is_dict |-> TRUE, items |-> f] :
            f \in UNION {[K -> DimValues] : K \in SUBSET DimKeys}}

EntryArgs ==
    {[fn |-> f, max_nb_series |-> m] :
        f \in Functions \ {"fetch_series_by_ids", "fetch_series_by_dimensions"}, m \in MaxArgs}
    \cup {[fn |-> "fetch_series_by_ids", max_nb_series |-> m, series_ids |-> si] :
            m \in MaxArgs, si \in SeriesIdsArgs}
    \cup {[fn |-> "fetch_series_by_dimensions", max_nb_series |-> m, dimensions |-> d] :
            m \in MaxArgs, d \in DimensionsArgs}

\* lines 99-101: the assertions of fetch_series_by_ids on series_ids
ValidSeriesIds(si) ==
    /\ si.is_list
    /\ si.items # <<>>
    /\ \A i \in 1..Len(si.items) : si.items[i] \in {"tuple3", "list3"}

\* lines 130-137: the assertions of fetch_series_by_dimensions on dimensions
ValidDimensions(d) ==
    /\ d.is_dict
    /\ DOMAIN d.items # {}
    /\ \A k \in DOMAIN d.items : k = "k"
    /\ \A k \in DOMAIN d.items : d.items[k] = "list_of_str"

\* the assertion that fails first in the function a.fn, "" if none does
ArgsError(a) ==
    IF a.fn = "fetch_series_by_ids" /\ ~ValidSeriesIds(a.series_ids)
    THEN "AssertionError: series_ids"
    ELSE IF a.fn = "fetch_series_by_dimensions" /\ ~ValidDimensions(a.dimensions)
    THEN "AssertionError: dimensions"
    ELSE IF ~ValidMax(a.max_nb_series) THEN "AssertionError: max_nb_series"
    ELSE ""

InitEntry ==
    /\ catalogue \in {"small", "large"}
    /\ pc = "entry"
    /\ max_nb_series = None
    /\ series_list = <<>>
    /\ offset = 0
    /\ dataset_code = UnboundLocalError
    /\ dataset_name = UnboundLocalError
    /\ num_found = None
    /\ nb_series = None
    /\ error = ""
    /\ error_arg = None
    /\ result = <<>>
    /\ requests = <<>>
    /\ pages = <<>>
    /\ args \in EntryArgs

\* the function entered without its parameters validation
Entry_Unchecked ==
    /\ pc = "entry"
    /\ max_nb_series' = args.max_nb_series
    /\ pc' = "loop"
    /\ args' = NoArgs
    /\ series_list' = <<>>
    /\ offset' = 0
    /\ dataset_code' = UnboundLocalError
    /\ dataset_name' = UnboundLocalError
    /\ UNCHANGED <<catalogue, num_found, nb_series, error, error_arg, result, requests, pages>>

\* The call of one of the five functions up to the first turn of the loop
\* of fetch_series_by_url: the parameters validation of the function, the
\* URL built from the arguments, the call of fetch_series_by_url with that
\* URL and max_nb_series (which leaves the function's own arguments behind),
\* its validation and the initial values of its locals.
Entry ==
    /\ pc = "entry"
    /\ max_nb_series' = args.max_nb_series
    /\ IF ArgsError(args) # ""
       THEN pc' = "error" /\ error' = ArgsError(args) /\ args' = args
       ELSE pc' = "loop" /\ error' = error /\ args' = NoArgs
    /\ series_list' = <<>>
    /\ offset' = 0
    /\ dataset_code' = UnboundLocalError
    /\ dataset_name' = UnboundLocalError
    /\ UNCHANGED <<catalogue, num_found, nb_series, error_arg, result, requests, pages>>

NextEntry == Entry \/ LoopTurn

SpecEntry == InitEntry /\ [][NextEntry]_vars

\* the arguments a are malformed input of the function a.fn
Malformed(a) ==
    \/ a.max_nb_series # None /\ a.max_nb_series < 1
    \/ /\ a.fn = "fetch_series_by_ids"
       /\ \/ ~a.series_ids.is_list
          \/ Len(a.series_ids.items) = 0
          \/ \E i \in 1..Len(a.series_ids.items) :
                a.series_ids.items[i] \in {"str", "tuple2"}
    \/ /\ a.fn = "fetch_series_by_dimensions"
       /\ \/ ~a.dimensions.is_dict
          \/ DOMAIN a.dimensions.items = {}
          \/ \E k \in DOMAIN a.dimensions.items :
                \/ k \in {"", "int"}
                \/ a.dimensions.items[k] \in {"empty_list", "str", "list_with_empty_str",
                                              "list_with_int"}

IsPrefix(a, b) == Len(a) <= Len(b) /\ a = SubSeq(b, 1, Len(a))

\* C24: at every point of a fetch_series_by_url call the accumulated list
\* is a prefix of the data arrays of the pages received so far, taken in
\* request order: between two requests it is all of them, and the list
\* handed to pd.concat is all of them or their first max_nb_series records.
C24_ArrivalOrder ==
    /\ IsPrefix(series_list, AllData(pages))
    /\ pc = "loop" => series_list = AllData(pages)
    /\ pc = "done" =>
        \/ series_list = AllData(pages)
        \/ /\ max_nb_series # None
           /\ Len(AllData(pages)) > max_nb_series
           /\ series_list = SubSeq(AllData(pages), 1, max_nb_series)

C24_Witness ==
    /\ pc = "done"
    /\ Len(pages) = 2
    /\ pages[1].data # <<>>
    /\ Len(series_list) < Len(AllData(pages))
    /\ Len(series_list) > Len(pages[1].data)
    /\ series_list = SubSeq(AllData(pages), 1, max_nb_series)

(* ------------------------ progress of the cursor ----------------------- *)
\* C26: within one fetch_series_by_url call the offsets of successive page
\* requests are strictly increasing, so no offset is requested twice.
C26_CursorProgress ==
    \A i \in 1..(Len(requests) - 1) : requests[i] < requests[i + 1]

(* ------------------ two invocations of fetch_series_by_url ------------- *)
\* The locals of one invocation as a record, and the loop of lines 209-250
\* as a function of that record and of the response received.
Frame(p, e, ea, m, sl, o, dc, dn, nf, nb, res) ==
    [pc |-> p, error |-> e, error_arg |-> ea, max_nb_series |-> m, series_list |-> sl,
     offset |-> o, dataset_code |-> dc, dataset_name |-> dn, num_found |-> nf,
     nb_series |-> nb, result |-> res]

\* lines 200-206 for the argument m
FrameOfCall(m) ==
    IF ValidMax(m)
    THEN Frame("loop", "", None, m, <<>>, 0, UnboundLocalError, UnboundLocalError,
               None, None, <<>>)
    ELSE Frame("error", "AssertionError: max_nb_series", None, m, <<>>, 0,
               UnboundLocalError, UnboundLocalError, None, None, <<>>)

\* lines 247-250 for the frame l leaving the loop with the list sl
ReturnOf(l, sl, dc, dn, nf, nb) ==
    IF sl = <<>>
    THEN Frame("error", "ValueError: No objects to concatenate", None, l.max_nb_series,
               sl, l.offset, dc, dn, nf, nb, <<>>)
    ELSE Frame("done", "", None, l.max_nb_series, sl, l.offset, dc, dn, nf, nb,
               ConcatRows(sl, dc, dn))

\* lines 211-245 for the frame l and the page r
AccumulateOf(l, r) ==
    LET dc == IF l.dataset_code = UnboundLocalError THEN r.dataset_code ELSE l.dataset_code
        dn == IF l.dataset_name = UnboundLocalError THEN r.dataset_name ELSE l.dataset_name
        nf == r.num_found
        sl == l.series_list \o r.data
        nb == Len(sl)
        m == l.max_nb_series
    IN
    IF ~r.dataset THEN
        [l EXCEPT !.pc = "error", !.error = "KeyError: dataset"]
    ELSE IF l.dataset_code # UnboundLocalError
            /\ ~DatasetCodeMatches(l.dataset_code, r.dataset_code) THEN
        [l EXCEPT !.pc = "error", !.error = "AssertionError: dataset_code"]
    ELSE IF l.dataset_name # UnboundLocalError
            /\ ~DatasetNameMatches(l.dataset_name, r.dataset_name) THEN
        [l EXCEPT !.pc = "error", !.error = "AssertionError: dataset_name",
                  !.dataset_code = dc]
    ELSE IF TooManySeriesGuard(m, nf) THEN
        Frame("error", "TooManySeries", nf, m, l.series_list, l.offset, dc, dn, nf,
              l.nb_series, <<>>)
    ELSE IF CapReached(m, nb) THEN
        ReturnOf(l, Truncate(sl, m), dc, dn, nf, nb)
    ELSE IF ~CountWithinFound(nb, nf) THEN
        Frame("error", "AssertionError: nb_series", None, m, sl, l.offset, dc, dn, nf,
              nb, <<>>)
    ELSE IF nb = nf THEN
        ReturnOf(l, sl, dc, dn, nf, nb)
    ELSE
        Frame("loop", "", None, m, sl, NextOffset(l.offset, nb), dc, dn, nf, nb, <<>>)

\* one turn of the loop for the frame l, the response to its request being r
TurnOf(l, r) ==
    LET f == fetch_series_json_page(r, l.offset) IN
    IF f = "ok" THEN AccumulateOf(l, r)
    ELSE [l EXCEPT !.pc = "error", !.error = f]

\* the locals of the single invocation of Spec as a frame
FrameNow ==
    Frame(pc, error, error_arg, max_nb_series, series_list, offset, dataset_code,
          dataset_name, num_found, nb_series, result)

\* TurnOf is the loop of Spec: every LoopTurn step takes the frame to
\* TurnOf of the frame and of the response received
TurnOfIsLoopTurn ==
    [][pc = "loop" => FrameNow' = TurnOf(FrameNow, pages'[Len(pages')])]_vars

Calls == {1, 2}

\* the responses to a request at offset o: the next series of the small
\* catalogue under either dataset code, or a payload that is not JSON
PairResponses(o) ==
    {Page(o, MaxCode, Run(o + 1, n), dc, 1) : n \in 1..MaxPage, dc \in DatasetCodes}
    \cup {[BasePage(o) EXCEPT !.json = FALSE]}

\* Two invocations: every local, and the request and response history,
\* is a function of the invocation.
InitPair ==
    /\ catalogue = "small"
    /\ pc = [c \in Calls |-> "start"]
    /\ max_nb_series = [c \in Calls |-> None]
    /\ series_list = [c \in Calls |-> <<>>]
    /\ offset = [c \in Calls |-> 0]
    /\ dataset_code = [c \in Calls |-> UnboundLocalError]
    /\ dataset_name = [c \in Calls |-> UnboundLocalError]
    /\ num_found = [c \in Calls |-> None]
    /\ nb_series = [c \in Calls |-> None]
    /\ error = [c \in Calls |-> ""]
    /\ error_arg = [c \in Calls |-> None]
    /\ result = [c \in Calls |-> <<>>]
    /\ requests = [c \in Calls |-> <<>>]
    /\ pages = [c \in Calls |-> <<>>]
    /\ args = NoArgs

\* the locals of invocation c as a frame
FrameAt(c) ==
    Frame(pc[c], error[c], error_arg[c], max_nb_series[c], series_list[c], offset[c],
          dataset_code[c], dataset_name[c], num_found[c], nb_series[c], result[c])

\* invocation c takes the frame l
SetFrame(c, l) ==
    /\ pc' = [pc EXCEPT ![c] = l.pc]
    /\ error' = [error EXCEPT ![c] = l.error]
    /\ error_arg' = [error_arg EXCEPT ![c] = l.error_arg]
    /\ max_nb_series' = [max_nb_series EXCEPT ![c] = l.max_nb_series]
    /\ series_list' = [series_list EXCEPT ![c] = l.series_list]
    /\ offset' = [offset EXCEPT ![c] = l.offset]
    /\ dataset_code' = [dataset_code EXCEPT ![c] = l.dataset_code]
    /\ dataset_name' = [dataset_name EXCEPT ![c] = l.dataset_name]
    /\ num_found' = [num_found EXCEPT ![c] = l.num_found]
    /\ nb_series' = [nb_series EXCEPT ![c] = l.nb_series]
    /\ result' = [result EXCEPT ![c] = l.result]

\* invocation c enters fetch_series_by_url
PairCall(c) ==
    /\ pc[c] = "start"
    /\ \E m \in MaxArgs : SetFrame(c, FrameOfCall(m))
    /\ UNCHANGED <<args, catalogue, requests, pages>>

\* the loop with the offset cursor kept in one place for all invocations
PairTurn_SharedCursor(c) ==
    /\ pc[c] = "loop"
    /\ Len(requests[c]) < MaxRequests
    /\ LET o == CHOOSE x \in {offset[d] : d \in Calls} : \A d \in Calls : x >= offset[d]
       IN \E r \in PairResponses(o) :
            /\ requests' = [requests EXCEPT ![c] = Append(@, o)]
            /\ pages' = [pages EXCEPT ![c] = Append(@, r)]
            /\ SetFrame(c, TurnOf([FrameAt(c) EXCEPT !.offset = o], r))
    /\ UNCHANGED <<args, catalogue>>

\* invocation c takes one turn of its loop
PairTurn(c) ==
    /\ pc[c] = "loop"
    /\ Len(requests[c]) < MaxRequests
    /\ \E r \in PairResponses(offset[c]) :
        /\ requests' = [requests EXCEPT ![c] = Append(@, offset[c])]
        /\ pages' = [pages EXCEPT ![c] = Append(@, r)]
        /\ SetFrame(c, TurnOf(FrameAt(c), r))
    /\ UNCHANGED <<args, catalogue>>

NextPair == \E c \in Calls : PairCall(c) \/ PairTurn(c)

SpecPair == InitPair /\ [][NextPair]_vars

\* the frame of an invocation with the argument m that runs alone and
\* receives the responses ps
RECURSIVE RunAlone(_, _)
RunAlone(m, ps) ==
    IF ps = <<>> THEN FrameOfCall(m)
    ELSE TurnOf(RunAlone(m, SubSeq(ps, 1, Len(ps) - 1)), ps[Len(ps)])

====
